---- MODULE Spec2Model ----
(***************************************************************************)
(* Model of scripts/addons_core/nx/__init__.py, the "Nx::Blender" add-on.  *)
(*                                                                         *)
(* The module holds one dictionary, bl_info, built when the module is      *)
(* loaded, and two callbacks, register() and unregister(), which the host  *)
(* calls.  Each callback is a single print().  The state is the            *)
(* dictionary, the lines written to standard output since load, and the    *)
(* outcome of the last call (its return value, whether it raised).  The    *)
(* host's calls so far are kept as a history.                              *)
(***************************************************************************)
EXTENDS Integers, Sequences, FiniteSets

VARIABLES
    bl_info,    \* the module-level dictionary
    stdout,     \* lines written to sys.stdout since the module was loaded
    ret,        \* value returned by the last call ("NoCall" before any call)
    raised,     \* TRUE iff the last call ended in an exception
    calls       \* history: names of the callbacks the host has invoked, in order

vars == <<bl_info, stdout, ret, raised, calls>>

\* Longest invocation sequence explored.
MaxCalls == 7

\* ---------------------------------------------------------------------
\* The program
\* ---------------------------------------------------------------------

\* BlInfo with a two-component version.
BlInfo_shortVersion ==
    [ name        |-> "Nx::Blender",
      author      |-> "Hardronix",
      version     |-> <<0, 1>>,
      blender     |-> <<4, 2, 0>>,
      location    |-> "Global",
      description |-> "NX features support",
      warning     |-> "",
      doc_url     |-> "",
      support     |-> "OFFICIAL",
      category    |-> "Global" ]

\* BlInfo with another category.
BlInfo_otherCategory ==
    [ name        |-> "Nx::Blender",
      author      |-> "Hardronix",
      version     |-> <<0, 0, 1>>,
      blender     |-> <<4, 2, 0>>,
      location    |-> "Global",
      description |-> "NX features support",
      warning     |-> "",
      doc_url     |-> "",
      support     |-> "OFFICIAL",
      category    |-> "System" ]

\* The dictionary literal assigned to bl_info at load.
BlInfo ==
    [ name        |-> "Nx::Blender",
      author      |-> "Hardronix",
      version     |-> <<0, 0, 1>>,
      blender     |-> <<4, 2, 0>>,
      location    |-> "Global",
      description |-> "NX features support",
      warning     |-> "",
      doc_url     |-> "",
      support     |-> "OFFICIAL",
      category    |-> "Global" ]

\* print(s): one line, the text s, is written to standard output.
print(out, s) == Append(out, s)

\* State after the module has been loaded and before any callback runs.
Init ==
    /\ bl_info = BlInfo
    /\ stdout = <<>>
    /\ ret = "NoCall"
    /\ raised = FALSE
    /\ calls = <<>>

\* register() that prints its marker twice.
register_printsTwice ==
    /\ Len(calls) < MaxCalls
    /\ calls' = Append(calls, "register")
    /\ stdout' = print(print(stdout, "NX init!"), "NX init!")
    /\ ret' = "None"
    /\ raised' = FALSE
    /\ UNCHANGED bl_info

\* register() that bumps the patch number of bl_info["version"].
register_bumpsVersion ==
    /\ Len(calls) < MaxCalls
    /\ calls' = Append(calls, "register")
    /\ stdout' = print(stdout, "NX init!")
    /\ ret' = "None"
    /\ raised' = FALSE
    /\ bl_info' = [bl_info EXCEPT !.version = <<@[1], @[2], @[3] + 1>>]

\* register() that returns silently when the add-on is already registered.
register_skipsDuplicate ==
    /\ Len(calls) < MaxCalls
    /\ calls' = Append(calls, "register")
    /\ stdout' = IF calls # <<>> /\ calls[Len(calls)] = "register"
                    THEN stdout
                    ELSE print(stdout, "NX init!")
    /\ ret' = "None"
    /\ raised' = FALSE
    /\ UNCHANGED bl_info

\* def register() -> None: print("NX init!")
register ==
    /\ Len(calls) < MaxCalls
    /\ calls' = Append(calls, "register")
    /\ stdout' = print(stdout, "NX init!")
    /\ ret' = "None"
    /\ raised' = FALSE
    /\ UNCHANGED bl_info

\* unregister() that prints a misspelt marker.
unregister_wrongText ==
    /\ Len(calls) < MaxCalls
    /\ calls' = Append(calls, "unregister")
    /\ stdout' = print(stdout, "NX unint!")
    /\ ret' = "None"
    /\ raised' = FALSE
    /\ UNCHANGED bl_info

\* unregister() that raises before printing.
unregister_raises ==
    /\ Len(calls) < MaxCalls
    /\ calls' = Append(calls, "unregister")
    /\ stdout' = stdout
    /\ ret' = "NoCall"
    /\ raised' = TRUE
    /\ UNCHANGED bl_info

\* unregister() that raises unless register() has run before.
unregister_guarded ==
    /\ Len(calls) < MaxCalls
    /\ calls' = Append(calls, "unregister")
    /\ IF \E i \in 1..Len(calls) : calls[i] = "register"
          THEN /\ stdout' = print(stdout, "NX uninit!")
               /\ ret' = "None"
               /\ raised' = FALSE
          ELSE /\ stdout' = stdout
               /\ ret' = "NoCall"
               /\ raised' = TRUE
    /\ UNCHANGED bl_info

\* unregister() that prints the initialization marker.
unregister_printsInit ==
    /\ Len(calls) < MaxCalls
    /\ calls' = Append(calls, "unregister")
    /\ stdout' = print(stdout, "NX init!")
    /\ ret' = "None"
    /\ raised' = FALSE
    /\ UNCHANGED bl_info

\* def unregister() -> None: print("NX uninit!")
unregister ==
    /\ Len(calls) < MaxCalls
    /\ calls' = Append(calls, "unregister")
    /\ stdout' = print(stdout, "NX uninit!")
    /\ ret' = "None"
    /\ raised' = FALSE
    /\ UNCHANGED bl_info

\* The host invokes either callback, in any order.
Next ==
    \/ register
    \/ unregister

Spec == Init /\ [][Next]_vars

\* ---------------------------------------------------------------------
\* Helpers for the properties
\* ---------------------------------------------------------------------

\* The marker each callback is documented to emit.
Marker(c) == IF c = "register" THEN "NX init!" ELSE "NX uninit!"

\* The step is a call of callback c.
IsCall(c) == calls' = Append(calls, c)

\* The step adds exactly the one line s to the output and keeps what was there.
EmitsOneLine(s) ==
    /\ Len(stdout') = Len(stdout) + 1
    /\ SubSeq(stdout', 1, Len(stdout)) = stdout
    /\ stdout'[Len(stdout')] = s

\* The step's call returned None without raising.
ReturnsNothing == ret' = "None" /\ raised' = FALSE

\* The call sequence h is register, unregister, register, ... in strict
\* alternation, starting with register.
Alternating(h) ==
    \A i \in 1..Len(h) :
        h[i] = (IF i % 2 = 1 THEN "register" ELSE "unregister")

\* The most recent marker in the output is the initialization marker.
Registered == stdout # <<>> /\ stdout[Len(stdout)] = "NX init!"

\* ---------------------------------------------------------------------
\* Properties
\* ---------------------------------------------------------------------

\* C1: every register() call appends exactly one line to the output, the
\* line is "NX init!", the call returns None without raising, and bl_info
\* is left as it was.
C1_RegisterEmitsInit ==
    [][IsCall("register") =>
        /\ EmitsOneLine("NX init!")
        /\ ReturnsNothing
        /\ bl_info' = bl_info]_vars

\* C1 witness: a register() call has run on top of earlier output.
C1_Witness ==
    /\ Len(calls) >= 2
    /\ calls[Len(calls)] = "register"
    /\ stdout[Len(stdout)] = "NX init!"
    /\ ret = "None"

\* C2: every unregister() call appends exactly one line to the output, the
\* line is "NX uninit!", the call returns None without raising, and bl_info
\* is left as it was.
C2_UnregisterEmitsUninit ==
    [][IsCall("unregister") =>
        /\ EmitsOneLine("NX uninit!")
        /\ ReturnsNothing
        /\ bl_info' = bl_info]_vars

\* C2 witness: an unregister() call has run on top of earlier output.
C2_Witness ==
    /\ Len(calls) >= 2
    /\ calls[Len(calls)] = "unregister"
    /\ stdout[Len(stdout)] = "NX uninit!"
    /\ ret = "None"

\* C3: in an invocation sequence that starts with register() and alternates
\* register/unregister, every unregister() call completes without raising
\* and emits the teardown marker.
C3_UnregisterAfterRegister ==
    [][(IsCall("unregister") /\ Alternating(calls')) =>
        /\ raised' = FALSE
        /\ stdout' = Append(stdout, "NX uninit!")]_vars

\* C3 witness: two full register/unregister rounds have completed.
C3_Witness ==
    /\ calls = <<"register", "unregister", "register", "unregister">>
    /\ stdout[4] = "NX uninit!"
    /\ raised = FALSE

\* C4: no call changes bl_info: it keeps the keys and the values it had
\* at load.
C4_DescriptorNeverMutated ==
    [][/\ DOMAIN bl_info' = DOMAIN bl_info
       /\ \A f \in DOMAIN bl_info : bl_info'[f] = bl_info[f]]_vars

\* C4 witness: both callbacks have run, more than once, and bl_info is the
\* literal of the source.
C4_Witness ==
    /\ Len(calls) >= 4
    /\ \E i \in 1..Len(calls) : calls[i] = "register"
    /\ \E i \in 1..Len(calls) : calls[i] = "unregister"
    /\ bl_info = BlInfo

\* A value is a sequence of exactly three non-negative integers.
IsVersionTriple(v) ==
    /\ DOMAIN v = 1..3
    /\ \A i \in 1..3 : v[i] \in Nat

\* C5: bl_info["version"] and bl_info["blender"] are each a sequence of
\* exactly three non-negative integers.
C5_VersionTriples ==
    /\ IsVersionTriple(bl_info.version)
    /\ IsVersionTriple(bl_info.blender)

\* C5 witness: after some calls the two triples are those of the source.
C5_Witness ==
    /\ calls # <<>>
    /\ bl_info.version = <<0, 0, 1>>
    /\ bl_info.blender = <<4, 2, 0>>

\* C6: bl_info["category"] and bl_info["location"] both equal "Global".
C6_CategoryLocationGlobal ==
    /\ bl_info.category = "Global"
    /\ bl_info.location = "Global"

\* C6 witness: both fields read "Global" after a register/unregister round.
C6_Witness ==
    /\ Len(calls) >= 2
    /\ calls[1] = "register"
    /\ calls[2] = "unregister"
    /\ bl_info.category = "Global"
    /\ bl_info.location = "Global"

\* C7: when only unregister() has ever been called (no register() before
\* it), no call has raised and each has emitted the teardown marker.
C7_UnregisterWithoutRegister ==
    (calls # <<>> /\ \A i \in 1..Len(calls) : calls[i] = "unregister") =>
        /\ raised = FALSE
        /\ ret = "None"
        /\ stdout = [i \in 1..Len(calls) |-> "NX uninit!"]

\* C7 witness: unregister() was the very first call and it printed its marker.
C7_Witness ==
    /\ calls = <<"unregister">>
    /\ stdout = <<"NX uninit!">>
    /\ raised = FALSE

\* C8: the lifecycle state read from the output (Registered iff the latest
\* marker is the initialization marker) is entered only by register() and
\* left only by unregister(); register() always ends in Registered and
\* unregister() always ends in Unregistered; the state before any call is
\* Unregistered.
C8_TwoStateCycle ==
    /\ (calls = <<>> => ~Registered)
    /\ [][/\ (~Registered /\ Registered') => IsCall("register")
          /\ (Registered /\ ~Registered') => IsCall("unregister")
          /\ IsCall("register") => Registered'
          /\ IsCall("unregister") => ~Registered']_vars

\* C8 witness: the cycle Unregistered -> Registered -> Unregistered ->
\* Registered has been walked.
C8_Witness ==
    /\ calls = <<"register", "unregister", "register">>
    /\ Registered

\* C9: the output is exactly the markers of the calls made, in call order,
\* one per call, whatever the order of the calls.
C9_OutputIsMarkerSequence ==
    /\ Len(stdout) = Len(calls)
    /\ \A i \in 1..Len(calls) : stdout[i] = Marker(calls[i])
    /\ raised = FALSE

\* C9 witness: a sequence with a duplicate register() and an unregister()
\* following an unregister().
C9_Witness ==
    /\ Len(calls) >= 4
    /\ \E i \in 1..(Len(calls) - 1) :
          calls[i] = "register" /\ calls[i + 1] = "register"
    /\ \E i \in 1..(Len(calls) - 1) :
          calls[i] = "unregister" /\ calls[i + 1] = "unregister"
    /\ stdout = [i \in 1..Len(calls) |-> Marker(calls[i])]

====
